---- MODULE Spec2Model ----
(***************************************************************************)
(* Flush of a partitioned aggregation payload into columnar batches:      *)
(* PayloadFlushState, PartitionedPayload::flush, Payload::flush and the   *)
(* type-directed column unpacking of                                       *)
(* src/query/expression/src/aggregate/payload_flush.rs.                    *)
(*                                                                         *)
(* Indices (partitions, pages, rows, scratch slots) are 0-based as in the  *)
(* source; TLA+ sequences are 1-based, hence the "+ 1" at every access.    *)
(***************************************************************************)
EXTENDS Integers, Sequences, FiniteSets, TLC

\* Rows materialized per flush call (crate::BATCH_SIZE, scaled down).
BATCH_SIZE == 2
\* Number of partitions of the PartitionedPayload is in 1..MaxParts.
MaxParts == 2
\* Pages of all partitions together.
MaxTotalPages == 2
\* Rows a page can hold (the page capacity).
MaxRows == 3

VARIABLES
    payloads,   \* PartitionedPayload.payloads: the partitions, each a Payload
    state,      \* the PayloadFlushState the caller passes to every call
    last,       \* the last call: its operation, receiver, result, cursor before it
    out,        \* batches returned by PartitionedPayload.flush since default/clear()
    driver,     \* the receiver the caller flushes since default/clear(): NoDriver,
                \* the PartitionedPayload, or the Payload of one partition
    session,    \* "default": no clear() since construction; "cleared" otherwise
    exhausted,  \* receivers whose flush returned false since the last clear()
    workers,    \* SpecWorkers: per worker its own PayloadFlushState and batches
    planner     \* SpecPlan: the physical plan tree and the stage it is in

vars == <<payloads, state, last, out, driver, session, exhausted, workers, planner>>

Min(a, b) == IF a <= b THEN a ELSE b

Slots == 0 .. (BATCH_SIZE - 1)

\* ------------------------------------------------------------------ types

T(base, nullable) == [base |-> base, nullable |-> nullable]

is_nullable(t) == t.nullable

remove_nullable(t) == t.base

\* The schemas and aggregate-function lists the payload is built with.
SchemaChoices ==
    { [group_types |-> << T("Number", FALSE) >>, aggrs |-> 0],
      [group_types |-> << T("Number", FALSE), T("String", TRUE) >>, aggrs |-> 1],
      [group_types |-> << T("Number", TRUE), T("Array", FALSE) >>, aggrs |-> 1],
      [group_types |-> << T("Tuple", TRUE) >>, aggrs |-> 0] }

\* ------------------------------------------------------------ row memory

\* A null pointer, and the pointer to row idx of page g of partition p.
NullPtr == << >>

StrTable == << "", "abc", "de" >>

\* What the insertion phase stored in row r of page g of partition p: the hash
\* field, the accumulator handle, and per group column its value and validity bit.
RowValue(t, p, g, r) ==
    CASE t.base = "Number" -> 100 * (p + 1) + 10 * g + r
      [] t.base = "String" -> StrTable[(r % 3) + 1]
      [] OTHER -> 0

StoredRow(types, p, g, r) ==
    [ hash  |-> 1000 + 100 * (p + 1) + 10 * g + r,
      place |-> 2000 + 100 * (p + 1) + 10 * g + r,
      vals  |-> [c \in 1 .. Len(types) |-> RowValue(types[c], p, g, r)],
      valid |-> [c \in 1 .. Len(types) |-> (~types[c].nullable) \/ (r % 3 # 2)] ]

MakePage(types, p, g, n) ==
    [ rows |-> n, data |-> [i \in 1 .. n |-> StoredRow(types, p, g, i - 1)] ]

MakePayload(cfg, p, shape) ==
    [ pages       |-> [g \in 1 .. Len(shape) |-> MakePage(cfg.group_types, p, g - 1, shape[g])],
      group_types |-> cfg.group_types,
      aggrs       |-> cfg.aggrs ]

\* Row counts of the pages of one partition: at most n pages.
PageSeqs(n) == UNION { [1 .. k -> 0 .. MaxRows] : k \in 0 .. n }

\* Row counts of the pages of np partitions holding at most budget pages together.
RECURSIVE Shapes(_, _)
Shapes(np, budget) ==
    IF np = 0 THEN { << >> }
    ELSE UNION { { << ps >> \o rest : rest \in Shapes(np - 1, budget - Len(ps)) }
                 : ps \in PageSeqs(budget) }

\* ------------------------------------------------------- PayloadFlushState

Default ==
    [ probe_state       |-> [row_count |-> 0, group_hashes |-> [i \in Slots |-> 0]],
      group_columns     |-> << >>,
      aggregate_results |-> << >>,
      row_count         |-> 0,
      flush_partition   |-> 0,
      flush_page        |-> 0,
      flush_page_row    |-> 0,
      addresses         |-> [i \in Slots |-> NullPtr],
      state_places      |-> [i \in Slots |-> 0] ]

\* clear() as the prose describes it: the scratch buffers are zeroed too.
clear_zeroScratch(st) ==
    [st EXCEPT !.row_count = 0,
               !.flush_partition = 0,
               !.flush_page = 0,
               !.flush_page_row = 0,
               !.addresses = [i \in Slots |-> NullPtr],
               !.state_places = [i \in Slots |-> 0]]

\* clear() that forgets the row cursor.
clear_keepRow(st) ==
    [st EXCEPT !.row_count = 0,
               !.flush_partition = 0,
               !.flush_page = 0]

clear(st) ==
    [st EXCEPT !.row_count = 0,
               !.flush_partition = 0,
               !.flush_page = 0,
               !.flush_page_row = 0]

Cursor(st) == << st.flush_partition, st.flush_page, st.flush_page_row >>

\* take_group_columns and take_aggregate_results: std::mem::take hands the
\* vector to the caller and leaves an empty one in the state.
\* Mutant: the columns are handed out as a copy and stay in the state.
take_group_columns_copy(st) == [state |-> st, ret |-> st.group_columns]

take_group_columns(st) ==
    [state |-> [st EXCEPT !.group_columns = << >>], ret |-> st.group_columns]

take_aggregate_results(st) ==
    [state |-> [st EXCEPT !.aggregate_results = << >>], ret |-> st.aggregate_results]

\* ------------------------------------------------------- column unpacking

data_ptr(self, page_index, row) == << self, page_index, row >>

Deref(pp, a) == pp[a[1] + 1].pages[a[2] + 1].data[a[3] + 1]

flush_type_column(pp, kind, field, col_index, st) ==
    LET len == st.probe_state.row_count IN
    [ kind |-> kind,
      data |-> [i \in 1 .. len |-> Deref(pp, st.addresses[i - 1])[field][col_index]] ]

flush_binary_column(pp, col_index, st) ==
    LET len == st.probe_state.row_count IN
    [i \in 1 .. len |-> Deref(pp, st.addresses[i - 1]).vals[col_index]]

flush_string_column(pp, col_index, st) == flush_binary_column(pp, col_index, st)

Unsupported(t) == remove_nullable(t) \in {"Array", "Map", "Tuple"}

\* Lines 186-187: the validity bits of the batch's rows, one per row.
\* Mutant: the last row's bit is left out.
Validity_short(pp, col_index, st) ==
    LET v == flush_type_column(pp, "Boolean", "valid", col_index, st).data IN
    SubSeq(v, 1, Len(v) - 1)

Validity(pp, col_index, st) ==
    flush_type_column(pp, "Boolean", "valid", col_index, st).data

\* Lines 178-180: array, map and tuple keys end the call with todo!().
\* Mutant: they are given the column of the empty array and map types.
NestedColumn_empty(t, len) == [kind |-> "Null", len |-> len]

NestedColumn(t, len) == [kind |-> "panic"]

\* The column of group key col_index (1-based), or a panic for array, map, tuple.
flush_column(pp, self, col_index, st) ==
    LET t   == pp[self + 1].group_types[col_index]
        len == st.probe_state.row_count
        col == CASE remove_nullable(t) = "Null"   -> [kind |-> "Null", len |-> len]
                 [] remove_nullable(t) = "Number" ->
                        flush_type_column(pp, "Number", "vals", col_index, st)
                 [] remove_nullable(t) = "String" ->
                        [kind |-> "String", data |-> flush_string_column(pp, col_index, st)]
                 [] OTHER -> NestedColumn(t, len)
    IN  IF col.kind = "panic" THEN col
        ELSE IF is_nullable(t)
        THEN [ kind     |-> "Nullable",
               column   |-> col,
               validity |-> Validity(pp, col_index, st) ]
        ELSE col

\* ------------------------------------------------------------------ flush

Result(st, ret) == [state |-> st, ret |-> ret]

\* Line 106: the cursor is past the last page.
\* Mutant: the output is reset before the check.
NoPageLeft_clearOutput(st) ==
    Result([st EXCEPT !.group_columns = << >>], "false")

NoPageLeft(st) == Result(st, "false")

\* Line 112: every row of the page has been read.
\* Mutants: ">" for ">=" (a page with no row left yields a batch), and a
\* test that gives up a page's last, shorter batch.
PageExhausted_strict(st, page) == st.flush_page_row > page.rows

PageExhausted_dropTail(st, page) == st.flush_page_row + BATCH_SIZE > page.rows

PageExhausted(st, page) == st.flush_page_row >= page.rows

\* Line 127: the address of row idx of the batch.
\* Mutant: the batch's offset in the page is forgotten.
RowAddress_noOffset(self, st, idx) == data_ptr(self, st.flush_page, idx)

RowAddress(self, st, idx) == data_ptr(self, st.flush_page, idx + st.flush_page_row)

\* Line 145: the cursor moves past the batch.
\* Mutant: the cursor is left where it was.
Advance_forgotten(st, end) == st

\* Mutant: the cursor moves a whole batch on, past the page's last row.
Advance_unclamped(st, end) == [st EXCEPT !.flush_page_row = @ + BATCH_SIZE]

Advance(st, end) == [st EXCEPT !.flush_page_row = end]

\* Lines 128-129: the hash of slot idx is read through addresses[idx].
\* Mutant: every slot's hash is read through addresses[0].
ReadHash_firstRow(pp, addr, idx) == Deref(pp, addr[0]).hash

ReadHash(pp, addr, idx) == Deref(pp, addr[idx]).hash

\* Line 122: the output of the previous batch is dropped.
\* Mutant: the reset is forgotten.
ClearColumns_forgotten(st) == st

ClearColumns(st) == [st EXCEPT !.group_columns = << >>]

\* Lines 131-137: the accumulator handle of the row at address a goes to slot
\* idx when aggregate functions are registered; the slot is left alone otherwise.
\* Mutant: the handle is read whether or not there are aggregate functions.
ReadStatePlace_always(pp, pl, st, a, idx) == Deref(pp, a).place

ReadStatePlace(pp, pl, st, a, idx) ==
    IF pl.aggrs # 0 THEN Deref(pp, a).place ELSE st.state_places[idx]

\* Lines 96-98: the cursor at the start of the next partition.
\* Mutant: the page and row cursor are not reset.
NextPartition_noReset(st) ==
    [st EXCEPT !.row_count = 0, !.flush_partition = st.flush_partition + 1]

NextPartition(st) ==
    LET partition_idx == st.flush_partition + 1 IN
    [clear(st) EXCEPT !.flush_partition = partition_idx]

\* Lines 120-146: one batch of the current page, starting at flush_page_row.
TakeBatch(pp, self, st) ==
    LET pl    == pp[self + 1]
        page  == pl.pages[st.flush_page + 1]
        end   == Min(st.flush_page_row + BATCH_SIZE, page.rows)
        rows  == end - st.flush_page_row
        addr  == [idx \in Slots |->
                    IF idx < rows
                    THEN RowAddress(self, st, idx)
                    ELSE st.addresses[idx]]
        s1    == [ClearColumns(st) EXCEPT
                    !.row_count = rows,
                    !.probe_state =
                        [ row_count    |-> rows,
                          group_hashes |-> [idx \in Slots |->
                              IF idx < rows THEN ReadHash(pp, addr, idx)
                              ELSE st.probe_state.group_hashes[idx]] ],
                    !.addresses = addr,
                    !.state_places = [idx \in Slots |->
                        IF idx < rows
                        THEN ReadStatePlace(pp, pl, st, addr[idx], idx)
                        ELSE st.state_places[idx]]]
        ncols == Len(pl.group_types)
        cols  == [c \in 1 .. ncols |-> flush_column(pp, self, c, s1)]
        bad   == { c \in 1 .. ncols : cols[c].kind = "panic" }
    IN  IF bad = {}
        THEN Result(Advance([s1 EXCEPT !.group_columns = @ \o cols], end), "true")
        ELSE LET k == CHOOSE c \in bad : \A d \in bad : c <= d IN
             Result([s1 EXCEPT !.group_columns = @ \o SubSeq(cols, 1, k - 1)], "panic")

RECURSIVE Payload_flush(_, _, _)
Payload_flush(pp, self, st) ==
    IF st.flush_page >= Len(pp[self + 1].pages)
    THEN NoPageLeft(st)
    ELSE IF PageExhausted(st, pp[self + 1].pages[st.flush_page + 1])
    THEN Payload_flush(pp, self,
            [st EXCEPT !.flush_page = @ + 1, !.flush_page_row = 0, !.row_count = 0])
    ELSE TakeBatch(pp, self, st)

RECURSIVE PartitionedPayload_flush(_, _)
PartitionedPayload_flush(pp, st) ==
    IF st.flush_partition >= Len(pp)
    THEN Result(st, "false")
    ELSE LET r == Payload_flush(pp, st.flush_partition, st) IN
         IF r.ret # "false"
         THEN r
         ELSE PartitionedPayload_flush(pp, NextPartition(r.state))

\* The call stack of the two methods: how many flush invocations are nested at
\* the deepest point of one call. Line 117 calls self.flush(state) from inside
\* Payload::flush for every page it passes; line 99 calls self.flush(state) from
\* inside PartitionedPayload::flush for every partition it passes, after the
\* Payload::flush call of line 92 has returned.
RECURSIVE Payload_flush_frames(_, _, _)
Payload_flush_frames(pp, self, st) ==
    IF st.flush_page >= Len(pp[self + 1].pages)
    THEN 1
    ELSE IF PageExhausted(st, pp[self + 1].pages[st.flush_page + 1])
    THEN 1 + Payload_flush_frames(pp, self,
                [st EXCEPT !.flush_page = @ + 1, !.flush_page_row = 0, !.row_count = 0])
    ELSE 1

Max(a, b) == IF a >= b THEN a ELSE b

RECURSIVE PartitionedPayload_flush_frames(_, _)
PartitionedPayload_flush_frames(pp, st) ==
    IF st.flush_partition >= Len(pp)
    THEN 1
    ELSE LET r     == Payload_flush(pp, st.flush_partition, st)
             inner == 1 + Payload_flush_frames(pp, st.flush_partition, st)
         IN  IF r.ret # "false"
             THEN inner
             ELSE Max(inner, 1 + PartitionedPayload_flush_frames(pp, NextPartition(r.state)))

\* ----------------------------------------------------------------- system

Panicked == last.ret = "panic"

NoDriver == [entry |-> "none", recv |-> -1]

Partitioned == [entry |-> "PartitionedPayload", recv |-> -1]

Single(p) == [entry |-> "Payload", recv |-> p]

Call(op, recv, ret, pre) == [op |-> op, recv |-> recv, ret |-> ret, pre |-> pre]

Batch(st) ==
    [ row_count     |-> st.row_count,
      group_columns |-> st.group_columns,
      rows          |-> [i \in 1 .. st.row_count |-> st.addresses[i - 1]] ]

Init ==
    /\ \E cfg \in SchemaChoices, np \in 1 .. MaxParts :
         \E shape \in Shapes(np, MaxTotalPages) :
            payloads = [p \in 1 .. np |-> MakePayload(cfg, p - 1, shape[p])]
    /\ state = Default
    /\ last = Call("new", -1, "none", << 0, 0, 0 >>)
    /\ out = << >>
    /\ driver = NoDriver
    /\ session = "default"
    /\ exhausted = {}
    /\ workers = << >>
    /\ planner = << >>

\* Mutant of PartitionedPayload::flush: the page is cut at the rows handed out.
Flush_draining ==
    /\ ~Panicked
    /\ driver \in {NoDriver, Partitioned}
    /\ LET r == PartitionedPayload_flush(payloads, state) IN
       /\ state' = r.state
       /\ last' = Call("PartitionedPayload.flush", -1, r.ret, Cursor(state))
       /\ driver' = Partitioned
       /\ out' = IF r.ret = "true" THEN Append(out, Batch(r.state)) ELSE out
       /\ exhausted' = exhausted \cup (IF r.ret = "false" THEN {-1} ELSE {})
       /\ payloads' = IF r.ret = "true"
                      THEN [payloads EXCEPT
                              ![r.state.flush_partition + 1].pages[r.state.flush_page + 1].rows =
                                  r.state.flush_page_row]
                      ELSE payloads
    /\ UNCHANGED <<session, workers, planner>>

\* PartitionedPayload::flush(&mut self, state)
Flush ==
    /\ ~Panicked
    /\ driver \in {NoDriver, Partitioned}
    /\ LET r == PartitionedPayload_flush(payloads, state) IN
       /\ state' = r.state
       /\ last' = Call("PartitionedPayload.flush", -1, r.ret, Cursor(state))
       /\ driver' = Partitioned
       /\ out' = IF r.ret = "true" THEN Append(out, Batch(r.state)) ELSE out
       /\ exhausted' = exhausted \cup (IF r.ret = "false" THEN {-1} ELSE {})
    /\ UNCHANGED <<payloads, session, workers, planner>>

\* Payload::flush(&self, state) called on partition p directly, by a caller
\* that flushes this one partition (its own flush_partition field is not read).
PayloadFlush(p) ==
    /\ ~Panicked
    /\ driver \in {NoDriver, Single(p)}
    /\ LET r == Payload_flush(payloads, p, state) IN
       /\ state' = r.state
       /\ last' = Call("Payload.flush", p, r.ret, Cursor(state))
       /\ exhausted' = exhausted \cup (IF r.ret = "false" THEN {p} ELSE {})
    /\ driver' = Single(p)
    /\ UNCHANGED <<payloads, out, session, workers, planner>>

\* PayloadFlushState::clear(&mut self)
Clear ==
    /\ ~Panicked
    /\ state' = clear(state)
    /\ last' = Call("clear", -1, "none", << 0, 0, 0 >>)
    /\ out' = << >>
    /\ driver' = NoDriver
    /\ session' = "cleared"
    /\ exhausted' = {}
    /\ UNCHANGED <<payloads, workers, planner>>

\* PayloadFlushState::take_group_columns(&mut self)
TakeGroupColumns ==
    /\ ~Panicked
    /\ state' = take_group_columns(state).state
    /\ last' = Call("take_group_columns", -1, "none", << 0, 0, 0 >>)
    /\ UNCHANGED <<payloads, out, driver, session, exhausted, workers, planner>>

\* PayloadFlushState::take_aggregate_results(&mut self)
TakeAggregateResults ==
    /\ ~Panicked
    /\ state' = take_aggregate_results(state).state
    /\ last' = Call("take_aggregate_results", -1, "none", << 0, 0, 0 >>)
    /\ UNCHANGED <<payloads, out, driver, session, exhausted, workers, planner>>

\* The aggregation operator stores the finalized aggregates of the batch it
\* was just handed (one column per aggregate function) in the pub field.
Finalize ==
    /\ ~Panicked
    /\ last.ret = "true"
    /\ last.op = "PartitionedPayload.flush"
    /\ payloads[1].aggrs # 0
    /\ state.aggregate_results = << >>
    /\ state' = [state EXCEPT !.aggregate_results =
                    << [kind |-> "Number",
                        data |-> [i \in 1 .. state.row_count |-> state.state_places[i - 1]]] >>]
    /\ last' = Call("finalize", -1, "none", << 0, 0, 0 >>)
    /\ UNCHANGED <<payloads, out, driver, session, exhausted, workers, planner>>

Next ==
    \/ Flush
    \/ \E p \in 0 .. (Len(payloads) - 1) : PayloadFlush(p)
    \/ Clear
    \/ TakeGroupColumns
    \/ TakeAggregateResults
    \/ Finalize

Spec == Init /\ [][Next]_vars

\* ------------------------------------------------------- what is stored

FlushOps == {"PartitionedPayload.flush", "Payload.flush"}

Flushed == last.op \in FlushOps

\* Addresses of the rows of partitions p.., page by page, row by row.
RECURSIVE RowsOfPages(_, _)
RowsOfPages(p, g) ==
    IF g >= Len(payloads[p + 1].pages) THEN << >>
    ELSE [i \in 1 .. payloads[p + 1].pages[g + 1].rows |-> << p, g, i - 1 >>]
         \o RowsOfPages(p, g + 1)

RECURSIVE RowsOfPartitions(_)
RowsOfPartitions(p) ==
    IF p >= Len(payloads) THEN << >>
    ELSE RowsOfPages(p, 0) \o RowsOfPartitions(p + 1)

StoredRows == RowsOfPartitions(0)

Range(f) == { f[i] : i \in DOMAIN f }

LexLt(a, b) ==
    \/ a[1] < b[1]
    \/ a[1] = b[1] /\ a[2] < b[2]
    \/ a[1] = b[1] /\ a[2] = b[2] /\ a[3] < b[3]

LexLeq(a, b) == a = b \/ LexLt(a, b)

IsPrefix(a, b) == Len(a) <= Len(b) /\ SubSeq(b, 1, Len(a)) = a

RECURSIVE SumRowCounts(_)
SumRowCounts(batches) ==
    IF batches = << >> THEN 0
    ELSE Head(batches).row_count + SumRowCounts(Tail(batches))

RECURSIVE ConcatRows(_)
ConcatRows(batches) ==
    IF batches = << >> THEN << >>
    ELSE Head(batches).rows \o ConcatRows(Tail(batches))

\* The values a column holds, and what the rows hold for group column c.
ColumnData(col) == IF col.kind = "Nullable" THEN col.column.data ELSE col.data

StoredColumn(rows, c) == [i \in 1 .. Len(rows) |-> Deref(payloads, rows[i]).vals[c]]

StoredValidity(rows, c) == [i \in 1 .. Len(rows) |-> Deref(payloads, rows[i]).valid[c]]

GroupTypes == payloads[1].group_types

\* The columns hold exactly what is stored in `rows`, one column per group key.
ColumnsHold(cols, rows) ==
    /\ Len(cols) = Len(GroupTypes)
    /\ \A c \in 1 .. Len(cols) :
          /\ ColumnData(cols[c]) = StoredColumn(rows, c)
          /\ (cols[c].kind = "Nullable") = is_nullable(GroupTypes[c])
          /\ cols[c].kind = "Nullable" => cols[c].validity = StoredValidity(rows, c)

\* The receiver's rows that are at or after the cursor `pre`.
Unread(recv, pre) ==
    IF recv = -1
    THEN { a \in Range(StoredRows) : LexLeq(pre, a) }
    ELSE { a \in Range(StoredRows) : a[1] = recv /\ LexLeq(<< recv, pre[2], pre[3] >>, a) }

\* The partition the last flush call took its batch from.
BatchPartition == IF last.op = "Payload.flush" THEN last.recv ELSE state.flush_partition

PartitionedDone == driver = Partitioned /\ -1 \in exhausted

\* ----------------------------------------------------------------- claims

\* C1: row-count conservation. Flushing the PartitionedPayload from a default (or
\* cleared) state until the first false, the row counts of the calls that
\* returned true sum to the number of rows stored in all pages of all partitions.
RowCountConservation ==
    PartitionedDone => SumRowCounts(out) = Len(StoredRows)

\* A default-state session over two partitions, with an empty page and a page
\* of more rows than one batch holds, flushed to exhaustion.
RowCountConservation_Witness ==
    /\ PartitionedDone
    /\ session = "default"
    /\ Len(payloads) = 2
    /\ Len(out) >= 2
    /\ Len(StoredRows) > BATCH_SIZE
    /\ \E p \in 1 .. 2 : \E g \in DOMAIN payloads[p].pages : payloads[p].pages[g].rows = 0

\* C2: order preservation. The batches returned so far list a prefix of the
\* stored rows in partition, page, row order, each batch's columns holding what
\* those rows store; at the first false they list every stored row exactly once.
OrderPreservation ==
    driver = Partitioned =>
        /\ IsPrefix(ConcatRows(out), StoredRows)
        /\ \A b \in Range(out) : ColumnsHold(b.group_columns, b.rows)
        /\ -1 \in exhausted => ConcatRows(out) = StoredRows

\* Exhausted after two batches of one page and a batch of another partition,
\* with a nullable column among the group keys.
OrderPreservation_Witness ==
    /\ PartitionedDone
    /\ Len(out) >= 3
    /\ \E i, j \in DOMAIN out : out[i].rows[1][1] # out[j].rows[1][1]
    /\ \E c \in DOMAIN GroupTypes : is_nullable(GroupTypes[c])

\* C3: batch bound. A flush call that returns true leaves a batch of 1 to
\* BATCH_SIZE rows, consecutive rows of one page that start at the cursor the call
\* found there and end at the new cursor; a batch of fewer than BATCH_SIZE rows
\* ends at the last row of its page.
BatchBound ==
    (Flushed /\ last.ret = "true") =>
        LET n    == state.row_count
            p    == BatchPartition
            g    == state.flush_page
            page == payloads[p + 1].pages[g + 1]
        IN  /\ 1 <= n /\ n <= BATCH_SIZE
            /\ state.flush_page_row <= page.rows
            /\ \A idx \in 0 .. (n - 1) :
                  state.addresses[idx] = << p, g, state.flush_page_row - n + idx >>
            /\ ColumnsHold(state.group_columns,
                           [i \in 1 .. n |-> state.addresses[i - 1]])
            /\ n < BATCH_SIZE => state.flush_page_row = page.rows

\* One partition, a page of BATCH_SIZE rows followed by a page of one row: the
\* batches have BATCH_SIZE rows and then 1.
BatchBound_Witness ==
    /\ Len(payloads) = 1
    /\ Len(payloads[1].pages) = 2
    /\ payloads[1].pages[1].rows = BATCH_SIZE
    /\ payloads[1].pages[2].rows = 1
    /\ Flushed /\ last.ret = "true"
    /\ Len(out) = 2
    /\ out[1].row_count = BATCH_SIZE
    /\ out[2].row_count = 1

\* C4: return-value contract and absorbing exhaustion. A call that returns true
\* leaves a batch of at least one row, one column per group key; a call returns
\* false exactly when its receiver holds no row at or after the cursor, and then
\* writes no batch into the scratch; a receiver that has returned false returns
\* false to every later call until clear().
ColumnLen(col) == IF col.kind = "Null" THEN col.len ELSE Len(ColumnData(col))

ReturnValueContract ==
    Flushed =>
        /\ last.ret = "true" =>
              /\ state.row_count >= 1
              /\ Len(state.group_columns) = Len(GroupTypes)
              /\ \A c \in DOMAIN state.group_columns :
                    ColumnLen(state.group_columns[c]) = state.row_count
        /\ (last.ret = "false") = (Unread(last.recv, last.pre) = {})

AbsorbingStep ==
    /\ (last'.op \in FlushOps /\ last'.recv \in exhausted) => last'.ret = "false"
    /\ (last'.op \in FlushOps /\ last'.ret = "false") =>
          /\ state'.addresses = state.addresses
          /\ state'.probe_state = state.probe_state
          /\ state'.state_places = state.state_places

AbsorbingExhaustion == []ReturnValueContract /\ [][AbsorbingStep]_vars

\* A second false from the exhausted PartitionedPayload, after it returned rows
\* and the caller took them.
AbsorbingExhaustion_Witness ==
    /\ PartitionedDone
    /\ last.op = "PartitionedPayload.flush"
    /\ last.ret = "false"
    /\ last.pre[1] = Len(payloads)
    /\ Len(out) >= 2
    /\ state.group_columns = << >>

\* C5: partition cascade. One PartitionedPayload.flush call leaves flush_partition
\* at the first partition, from the one the cursor was in, that still holds an
\* unread row, or at the number of partitions when there is none, and returns
\* false exactly in that case; a partition it moved to is read from its first
\* row, and the page and row cursor are 0 when it moved past the last one.
CascadeTarget(pre) ==
    LET live == { q \in pre[1] .. (Len(payloads) - 1) :
                    \E a \in Unread(-1, pre) : a[1] = q }
    IN  IF live = {} THEN Len(payloads)
        ELSE CHOOSE q \in live : \A q2 \in live : q <= q2

PartitionCascade ==
    last.op = "PartitionedPayload.flush" =>
        LET target == CascadeTarget(last.pre) IN
        /\ state.flush_partition = target
        /\ (last.ret = "false") = (target = Len(payloads))
        /\ (target > last.pre[1] /\ last.ret = "true") =>
              state.addresses[0] = Head(RowsOfPages(target, 0))
        /\ (target > last.pre[1] /\ last.ret = "false") =>
              state.flush_page = 0 /\ state.flush_page_row = 0

\* Partition 0 empty, partition 1 holding one batch of rows: the first call
\* returned them, the second returned false.
PartitionCascade_Witness ==
    /\ Len(payloads) = 2
    /\ payloads[1].pages = << >>
    /\ Len(StoredRows) = BATCH_SIZE
    /\ PartitionedDone
    /\ last.op = "PartitionedPayload.flush"
    /\ last.ret = "false"
    /\ last.pre = << 1, 0, BATCH_SIZE >>
    /\ Len(out) = 1
    /\ out[1].rows[1] = << 1, 0, 0 >>

\* C6: restart idempotence. After clear(), whatever was flushed before it, the
\* batches PartitionedPayload.flush returns are those a fresh default state
\* gives, in the same order, and all of them once it has returned false.
RECURSIVE FreshBatches(_)
FreshBatches(st) ==
    LET r == PartitionedPayload_flush(payloads, st) IN
    IF r.ret = "true" THEN << Batch(r.state) >> \o FreshBatches(r.state) ELSE << >>

RestartIdempotence ==
    (session = "cleared" /\ driver \in {NoDriver, Partitioned}) =>
        /\ IsPrefix(out, FreshBatches(Default))
        /\ -1 \in exhausted => out = FreshBatches(Default)

\* A session restarted by clear() with the previous output never taken, flushed
\* to exhaustion.
RestartIdempotence_Witness ==
    /\ session = "cleared"
    /\ PartitionedDone
    /\ Len(out) >= 3
    /\ state.aggregate_results # << >>

\* C7: exhaustion on empty input. When no partition holds a row, every
\* PartitionedPayload.flush call returns false (it does not panic, whatever the
\* group-key types) and group_columns is empty.
AllEmpty == StoredRows = << >>

EmptyInput ==
    (AllEmpty /\ last.op = "PartitionedPayload.flush") =>
        /\ last.ret = "false"
        /\ state.group_columns = << >>
        /\ state.flush_partition = Len(payloads)

\* Two partitions, a page without rows, a tuple group key: the first call on the
\* default state returned false.
EmptyInput_Witness ==
    /\ AllEmpty
    /\ Len(payloads) = 2
    /\ \E p \in 1 .. 2 : Len(payloads[p].pages) > 0
    /\ \E c \in DOMAIN GroupTypes : Unsupported(GroupTypes[c])
    /\ session = "default"
    /\ last.op = "PartitionedPayload.flush"
    /\ last.pre = << 0, 0, 0 >>

\* C8 as stated: after a flush call that returned false, group_columns holds no
\* rows, also when the caller calls only flush between batches.
EmptyOutputOnExhaustion ==
    (Flushed /\ last.ret = "false") =>
        \A c \in DOMAIN state.group_columns : ColumnLen(state.group_columns[c]) = 0

\* C8, amended: a flush call that returns false leaves group_columns as it was
\* before the call (empty if the caller took the last batch, that batch otherwise).
FalseKeepsOutput ==
    [][(last'.op \in FlushOps /\ last'.ret = "false") =>
          state'.group_columns = state.group_columns]_vars

\* One page of BATCH_SIZE + 1 rows: a full batch, the last row, then false with
\* the last row still in group_columns.
FalseKeepsOutput_Witness ==
    /\ Len(payloads) = 1
    /\ Len(payloads[1].pages) = 1
    /\ payloads[1].pages[1].rows = BATCH_SIZE + 1
    /\ Flushed /\ last.ret = "false"
    /\ Len(out) = 2
    /\ out[1].row_count = BATCH_SIZE
    /\ state.group_columns = out[2].group_columns
    /\ ColumnLen(state.group_columns[1]) = 1

\* C9 as stated: clear() zeroes the cursor, row_count, the row addresses and the
\* accumulator handles, and leaves group_columns and aggregate_results.
ClearZeroesScratch ==
    [][last'.op = "clear" =>
          /\ Cursor(state') = << 0, 0, 0 >>
          /\ state'.row_count = 0
          /\ state'.addresses = [i \in Slots |-> NullPtr]
          /\ state'.state_places = [i \in Slots |-> 0]
          /\ state'.group_columns = state.group_columns
          /\ state'.aggregate_results = state.aggregate_results]_vars

\* C9, amended: clear() zeroes the cursor and row_count and leaves every other
\* field: the row addresses, the accumulator handles, the probe scratch,
\* group_columns and aggregate_results.
ClearEffect ==
    [][last'.op = "clear" =>
          /\ Cursor(state') = << 0, 0, 0 >>
          /\ state'.row_count = 0
          /\ state'.addresses = state.addresses
          /\ state'.state_places = state.state_places
          /\ state'.probe_state = state.probe_state
          /\ state'.group_columns = state.group_columns
          /\ state'.aggregate_results = state.aggregate_results]_vars

\* Just after clear(), with addresses, handles, columns and aggregates of the
\* batch flushed before it still in the state.
ClearEffect_Witness ==
    /\ last.op = "clear"
    /\ state.addresses[0] # NullPtr
    /\ state.state_places[0] # 0
    /\ state.probe_state.row_count > 0
    /\ state.group_columns # << >>
    /\ state.aggregate_results # << >>

\* C10: monotonic cursor. No call but clear() moves the cursor (flush_partition,
\* flush_page, flush_page_row) backward in lexicographic order, and a flush call
\* that returns true moves it strictly forward.
MonotonicCursor ==
    [][/\ last'.op # "clear" => LexLeq(Cursor(state), Cursor(state'))
       /\ (last'.op \in FlushOps /\ last'.ret = "true") =>
             LexLt(Cursor(state), Cursor(state'))]_vars

\* A call that moved to the next partition and returned a batch from it, the
\* row cursor ending lower than it was.
MonotonicCursor_Witness ==
    /\ last.op = "PartitionedPayload.flush"
    /\ last.ret = "true"
    /\ state.flush_partition > last.pre[1]
    /\ state.flush_page_row < last.pre[3]

\* C11: flush is a pure read of the payload. No call to Payload.flush,
\* PartitionedPayload.flush, clear, take_group_columns or take_aggregate_results
\* changes the payload: the partitions, their pages, the row count of each page,
\* the stored rows and the schema are after the call what they were before it.
PayloadUnchanged ==
    [][payloads' = payloads]_vars

\* After a clear() and a take_aggregate_results() that followed a batch of a page
\* with more rows than one batch: flush, clear and both take methods have run.
PayloadUnchanged_Witness ==
    /\ last.op = "take_aggregate_results"
    /\ session = "cleared"
    /\ out # << >>
    /\ state.group_columns = << >>
    /\ state.flush_page_row > 0
    /\ payloads[state.flush_partition + 1].pages[state.flush_page + 1].rows
          > state.flush_page_row

\* C12: nullable shape. For every nullable group-key column and every flush call
\* that returns true, the column produced is a nullable column whose validity has
\* exactly state.row_count bits and whose data has exactly state.row_count
\* elements, bit i telling whether row i of the batch is non-null.
NullableShape ==
    (Flushed /\ last.ret = "true") =>
        \A c \in 1 .. Len(GroupTypes) :
            is_nullable(GroupTypes[c]) =>
                /\ c \in DOMAIN state.group_columns
                /\ LET col == state.group_columns[c] IN
                   /\ col.kind = "Nullable"
                   /\ Len(col.validity) = state.row_count
                   /\ ColumnLen(col.column) = state.row_count
                   /\ \A i \in 1 .. state.row_count :
                         col.validity[i] = Deref(payloads, state.addresses[i - 1]).valid[c]

\* The rows "", "abc", null of a nullable text key, flushed in two batches:
\* validity true, true and then false, as many data elements as bits.
NullableShape_Witness ==
    /\ Flushed /\ last.ret = "true"
    /\ Len(out) = 2
    /\ Len(GroupTypes) = 2
    /\ GroupTypes[2] = T("String", TRUE)
    /\ out[1].group_columns[2].validity = << TRUE, TRUE >>
    /\ out[1].group_columns[2].column.data = << "", "abc" >>
    /\ out[2].group_columns[2].validity = << FALSE >>
    /\ Len(out[2].group_columns[2].column.data) = 1

\* ------------------------------------------------------- two workers

\* Two workers, each with a PayloadFlushState of its own, each calling
\* Payload::flush(&self, ..) on a partition of its own; PayloadFlushState is
\* Send and Sync (lines 67-68), the payload is shared.
Workers == {1, 2}

WorkerPartition(w) == w - 1

FlushVarsIdle ==
    /\ state = Default
    /\ last = Call("new", -1, "none", << 0, 0, 0 >>)
    /\ out = << >>
    /\ driver = NoDriver
    /\ session = "default"
    /\ exhausted = {}

InitWorkers ==
    /\ \E cfg \in SchemaChoices, np \in 2 .. MaxParts :
         \E shape \in Shapes(np, MaxTotalPages) :
            payloads = [p \in 1 .. np |-> MakePayload(cfg, p - 1, shape[p])]
    /\ FlushVarsIdle
    /\ workers = [w \in Workers |->
                    [state |-> Default, out |-> << >>, ret |-> "none", touched |-> {},
                     peer |-> 0]]
    /\ planner = << >>

\* The partitions whose rows a call read: those of the addresses it gathered.
Touched(r) ==
    IF r.ret = "false" THEN {}
    ELSE { r.state.addresses[i][1] : i \in 0 .. (r.state.row_count - 1) }

\* One Payload::flush call of worker w; a call that aborts ends that worker only.
\* peer: how many batches the other worker had when this one made its first call.
WorkerFlush(w) ==
    /\ workers[w].ret # "panic"
    /\ LET me == workers[w]
           r  == Payload_flush(payloads, WorkerPartition(w), me.state)
       IN  workers' = [workers EXCEPT ![w] =
                         [ state   |-> r.state,
                           out     |-> IF r.ret = "true"
                                       THEN Append(me.out, Batch(r.state)) ELSE me.out,
                           ret     |-> r.ret,
                           touched |-> me.touched \cup Touched(r),
                           peer    |-> IF me.ret = "none"
                                       THEN Len(workers[CHOOSE v \in Workers : v # w].out)
                                       ELSE me.peer ]]
    /\ UNCHANGED <<payloads, state, last, out, driver, session, exhausted, planner>>

NextWorkers == \E w \in Workers : WorkerFlush(w)

SpecWorkers == InitWorkers /\ [][NextWorkers]_vars

\* The batches Payload::flush on partition p returns from state st, run alone.
RECURSIVE SoloBatches(_, _)
SoloBatches(p, st) ==
    LET r == Payload_flush(payloads, p, st) IN
    IF r.ret = "true" THEN << Batch(r.state) >> \o SoloBatches(p, r.state) ELSE << >>

WorkerAlone(w) ==
    LET me == workers[w]
        p  == WorkerPartition(w)
    IN  /\ IsPrefix(me.out, SoloBatches(p, Default))
        /\ IsPrefix(ConcatRows(me.out), RowsOfPages(p, 0))
        /\ me.ret = "false" =>
              /\ me.out = SoloBatches(p, Default)
              /\ ConcatRows(me.out) = RowsOfPages(p, 0)
        /\ \A i \in DOMAIN me.out : ColumnsHold(me.out[i].group_columns, me.out[i].rows)
        /\ me.touched \subseteq {p}

OneWriter ==
    \A w \in Workers :
        workers'[w] # workers[w] => \A v \in Workers \ {w} : workers'[v] = workers[v]

\* C13: concurrent flush of different partitions. Two workers, each with its own
\* PayloadFlushState, each driving Payload.flush on a partition of its own: under
\* every interleaving of their calls each worker gets the batches it would get
\* running alone (the rows of its partition, in order), no call reads rows of the
\* other worker's partition or writes the other worker's state, and the payload
\* stays as it was.
ConcurrentFlush ==
    /\ [](\A w \in Workers : WorkerAlone(w))
    /\ [][payloads' = payloads /\ OneWriter]_vars

\* Both workers have flushed their partitions to the first false, their calls
\* interleaved: the second worker's first call lies between the two batches of
\* the first worker.
ConcurrentFlush_Witness ==
    /\ \A w \in Workers : workers[w].ret = "false" /\ workers[w].out # << >>
    /\ Len(workers[1].out) = 2
    /\ workers[2].peer = 1
    /\ workers[1].touched = {0}
    /\ workers[2].touched = {1}

\* ------------------------------------------------------- nesting depth

\* The flush invocations nested at the deepest point of the last flush call, and
\* the partitions and pages that call passed over.
LastFrames ==
    LET st == [Default EXCEPT !.flush_partition = last.pre[1],
                              !.flush_page = last.pre[2],
                              !.flush_page_row = last.pre[3]]
    IN  IF last.op = "Payload.flush"
        THEN Payload_flush_frames(payloads, last.recv, st)
        ELSE PartitionedPayload_flush_frames(payloads, st)

\* What a call that passes over nothing nests: PartitionedPayload.flush calling
\* Payload.flush once, or Payload.flush alone.
FramesWithoutSkip == IF last.op = "Payload.flush" THEN 1 ELSE 2

\* C14: bounded cascade. Every flush call terminates, and the depth of nested
\* flush invocations during one PartitionedPayload.flush call (and during one
\* Payload.flush call) is bounded by a constant that does not grow with the
\* number of leading empty partitions (or empty pages) the call skips: a call
\* that skips some nests no deeper than a call that skips none.
BoundedCascade ==
    Flushed => LastFrames <= FramesWithoutSkip

\* ------------------------------------------------------- unsupported keys

HasUnsupported == \E c \in DOMAIN GroupTypes : Unsupported(GroupTypes[c])

FirstUnsupported ==
    CHOOSE c \in DOMAIN GroupTypes :
        Unsupported(GroupTypes[c]) /\ \A d \in 1 .. (c - 1) : ~Unsupported(GroupTypes[d])

\* C15: unsupported-type abort. A flush call that has at least one row to produce
\* and whose schema has an array, map or tuple group key (bare or wrapped in
\* nullable) aborts instead of returning: it never returns true with a column for
\* that key, and at the abort flush_page_row is still at the first row of the
\* batch, the scratch holding the batch's rows and the columns of the keys before
\* the unsupported one.
UnsupportedAbort ==
    Flushed =>
        /\ (last.ret = "panic") = (HasUnsupported /\ Unread(last.recv, last.pre) # {})
        /\ last.ret = "true" => ~HasUnsupported
        /\ last.ret = "panic" =>
              /\ state.row_count >= 1
              /\ state.addresses[0] =
                    << BatchPartition, state.flush_page, state.flush_page_row >>
              /\ Len(state.group_columns) = FirstUnsupported - 1
              /\ \A c \in DOMAIN state.group_columns : state.group_columns[c].kind # "panic"

\* The call aborted on the array key that follows a nullable number key, after
\* passing an empty first partition; the number column had been produced.
UnsupportedAbort_Witness ==
    /\ last.op = "PartitionedPayload.flush"
    /\ last.ret = "panic"
    /\ GroupTypes = << T("Number", TRUE), T("Array", FALSE) >>
    /\ state.flush_partition = 1
    /\ Len(state.group_columns) = 1
    /\ state.row_count = BATCH_SIZE

\* ------------------------------------------------------- plan numbering

\* PhysicalPlanBuilder::build: build_physical_plan returns the plan tree, then
\* adjust_plan_id(&mut plan, &mut 0) numbers it.
MaxNodes == 4
MaxBuiltId == 1

\* The variants adjust_plan_id has an arm for, by what the arm does after
\* plan.plan_id = *next_id; *next_id += 1: nothing more, a call on plan.input, or
\* calls on both children. Every other variant is left to the arm "_ => {}".
LeafArms ==
    {"TableScan", "CteScan", "MaterializedCte", "ConstantTableScan",
     "ExchangeSource", "ExchangeSink", "CopyIntoTable"}

InputArms ==
    {"Filter", "Project", "EvalScalar", "ProjectSet", "AggregateExpand",
     "AggregatePartial", "AggregateFinal", "Window", "Sort", "Limit", "RowFetch",
     "Exchange", "Udf", "DistributedInsertSelect"}

TwoInputArms == {"HashJoin", "RangeJoin", "UnionAll"}

\* A plan node: its variant, its plan_id, its children, and whether
\* adjust_plan_id has written its plan_id.
Node(kind, plan_id, children) ==
    [kind |-> kind, plan_id |-> plan_id, children |-> children, assigned |-> FALSE]

\* The plan_id a node carries when build_physical_plan returns it.
BuiltIds == 0 .. MaxBuiltId

\* The trees of exactly n nodes that build_physical_plan returns: table scans at
\* the leaves, filters and AddRowNumber nodes (build_add_row_number, a variant
\* adjust_plan_id has no arm for) over one input, hash joins over two.
RECURSIVE Trees(_)
Trees(n) ==
    IF n <= 0 THEN {}
    ELSE IF n = 1 THEN { Node("TableScan", b, << >>) : b \in BuiltIds }
    ELSE { Node(k, b, << c >>) :
              k \in {"Filter", "AddRowNumber"}, b \in BuiltIds, c \in Trees(n - 1) }
         \cup UNION { { Node("HashJoin", b, << l, r >>) :
                          b \in BuiltIds, l \in Trees(i), r \in Trees(n - 1 - i) }
                      : i \in 1 .. (n - 2) }

Numbered(plan, next_id) == [plan |-> plan, next_id |-> next_id]

RECURSIVE adjust_plan_id(_, _)
adjust_plan_id(plan, next_id) ==
    LET here == [plan EXCEPT !.plan_id = next_id, !.assigned = TRUE] IN
    IF plan.kind \in LeafArms
    THEN Numbered(here, next_id + 1)
    ELSE IF plan.kind \in InputArms
    THEN LET input == adjust_plan_id(plan.children[1], next_id + 1) IN
         Numbered([here EXCEPT !.children = << input.plan >>], input.next_id)
    ELSE IF plan.kind \in TwoInputArms
    THEN LET left  == adjust_plan_id(plan.children[1], next_id + 1)
             right == adjust_plan_id(plan.children[2], left.next_id)
         IN  Numbered([here EXCEPT !.children = << left.plan, right.plan >>],
                      right.next_id)
    ELSE Numbered(plan, next_id)

InitPlan ==
    /\ payloads = << >>
    /\ FlushVarsIdle
    /\ workers = << >>
    /\ \E n \in 1 .. MaxNodes : \E t \in Trees(n) :
          planner = [stage |-> "built", tree |-> t, next_id |-> 0]

\* build, line 63: adjust_plan_id(&mut plan, &mut 0).
AdjustPlanId ==
    /\ planner.stage = "built"
    /\ LET r == adjust_plan_id(planner.tree, 0) IN
       planner' = [stage |-> "adjusted", tree |-> r.plan, next_id |-> r.next_id]
    /\ UNCHANGED <<payloads, state, last, out, driver, session, exhausted, workers>>

NextPlan == AdjustPlanId

SpecPlan == InitPlan /\ [][NextPlan]_vars

\* The nodes of a tree, parents before children.
RECURSIVE NodesOf(_)
RECURSIVE NodesOfAll(_)
NodesOf(t) == << t >> \o NodesOfAll(t.children)
NodesOfAll(ts) == IF ts = << >> THEN << >> ELSE NodesOf(Head(ts)) \o NodesOfAll(Tail(ts))

\* C16: unique plan ids. After build has run adjust_plan_id with the counter at
\* 0, every node of the plan tree, of any variant and at any depth, has been
\* assigned a plan_id, and no two nodes have the same plan_id.
UniquePlanIds ==
    planner.stage = "adjusted" =>
        LET nodes == NodesOf(planner.tree) IN
        /\ \A i \in DOMAIN nodes : nodes[i].assigned
        /\ \A i, j \in DOMAIN nodes : i # j => nodes[i].plan_id # nodes[j].plan_id

RECURSIVE ChildrenAfterParent(_)
ChildrenAfterParent(t) ==
    \A i \in DOMAIN t.children :
        /\ t.children[i].plan_id > t.plan_id
        /\ ChildrenAfterParent(t.children[i])

\* C17: top-down ordering. After adjust_plan_id, the plan_id of every node other
\* than the root is strictly greater than the plan_id of its parent.
TopDownPlanIds ==
    planner.stage = "adjusted" => ChildrenAfterParent(planner.tree)

\* ------------------------------------------------------- scratch and output

\* Row r of page g of partition p, as stored.
RowAt(p, g, r) == payloads[p + 1].pages[g + 1].data[r + 1]

\* C18: scratch alignment. After a flush call that returned true with
\* state.row_count = n, the batch having started at row r of page g of partition
\* p, for every idx < n the entries state.addresses[idx],
\* state.probe_state.group_hashes[idx] and, when aggregate functions are
\* registered, state.state_places[idx] all belong to row r + idx of that page:
\* the row that supplies element idx of every group column.
ScratchAlignment ==
    (Flushed /\ last.ret = "true") =>
        LET n == state.row_count
            p == BatchPartition
            g == state.flush_page
            r == state.flush_page_row - n
        IN  /\ state.probe_state.row_count = n
            /\ \A idx \in 0 .. (n - 1) :
                  LET row == RowAt(p, g, r + idx) IN
                  /\ state.addresses[idx] = data_ptr(p, g, r + idx)
                  /\ state.probe_state.group_hashes[idx] = row.hash
                  /\ payloads[p + 1].aggrs # 0 => state.state_places[idx] = row.place
                  /\ \A c \in DOMAIN state.group_columns :
                        /\ ColumnData(state.group_columns[c])[idx + 1] = row.vals[c]
                        /\ state.group_columns[c].kind = "Nullable" =>
                              state.group_columns[c].validity[idx + 1] = row.valid[c]

\* The second batch of a page of BATCH_SIZE + 1 rows in the second partition,
\* with aggregate functions registered: slot 0 holds the page's row BATCH_SIZE.
ScratchAlignment_Witness ==
    /\ last.op = "PartitionedPayload.flush" /\ last.ret = "true"
    /\ payloads[1].aggrs # 0
    /\ state.flush_partition = 1
    /\ state.row_count = 1
    /\ state.flush_page_row = BATCH_SIZE + 1
    /\ state.probe_state.group_hashes[0] = RowAt(1, state.flush_page, BATCH_SIZE).hash
    /\ state.state_places[0] = RowAt(1, state.flush_page, BATCH_SIZE).place

\* C19: state_places is written only when aggregate functions are registered.
\* With no aggregate function, no flush call changes any entry of
\* state.state_places; with at least one, a flush call that returns true
\* overwrites exactly the entries 0 .. row_count - 1, each with the handle stored
\* in its row, and leaves the entries from row_count on as they were.
StatePlacesFrame ==
    [][last'.op \in FlushOps =>
          /\ payloads[1].aggrs = 0 => state'.state_places = state.state_places
          /\ (payloads[1].aggrs # 0 /\ last'.ret = "true") =>
                \A idx \in Slots :
                    state'.state_places[idx] =
                        IF idx < state'.row_count
                        THEN Deref(payloads, state'.addresses[idx]).place
                        ELSE state.state_places[idx]]_vars

\* With aggregate functions registered, a batch of one row after a full batch:
\* entry 0 is the handle of the batch's row, entry 1 still the handle of the
\* second row of the batch before.
StatePlacesFrame_Witness ==
    /\ Flushed /\ last.ret = "true"
    /\ payloads[1].aggrs # 0
    /\ state.row_count = 1
    /\ state.flush_page_row = BATCH_SIZE + 1
    /\ state.state_places[0] = RowAt(BatchPartition, state.flush_page, BATCH_SIZE).place
    /\ state.state_places[1] = RowAt(BatchPartition, state.flush_page, 1).place

\* The kind of column flush_column makes for a group key of type t.
ColumnKind(t) == IF is_nullable(t) THEN "Nullable" ELSE remove_nullable(t)

\* state.group_columns is the batch of the rows now in state.addresses: one
\* column per group key, in schema order, each of row_count elements.
HoldsOneBatch(st) ==
    /\ Len(st.group_columns) = Len(GroupTypes)
    /\ \A c \in DOMAIN st.group_columns :
          /\ st.group_columns[c].kind = ColumnKind(GroupTypes[c])
          /\ st.group_columns[c].kind = "Nullable" =>
                st.group_columns[c].column.kind = remove_nullable(GroupTypes[c])
          /\ ColumnLen(st.group_columns[c]) = st.row_count
    /\ ColumnsHold(st.group_columns, [i \in 1 .. st.row_count |-> st.addresses[i - 1]])

\* C20: the output holds exactly one batch. After every flush call that returns
\* true, state.group_columns has exactly one column per group key, in schema
\* order, each of length state.row_count, holding the rows of this batch only,
\* also when the caller left the previous batch in state.group_columns.
OutputOneBatch ==
    /\ []((Flushed /\ last.ret = "true") => HoldsOneBatch(state))
    /\ [][(last'.op \in FlushOps /\ last'.ret = "true" /\ state.group_columns # << >>)
             => HoldsOneBatch(state')]_vars

\* The third batch of a session in which the two batches before it were of
\* other sizes or rows, over a number key and a nullable text key.
OutputOneBatch_Witness ==
    /\ last.op = "PartitionedPayload.flush" /\ last.ret = "true"
    /\ Len(out) = 3
    /\ Len(GroupTypes) = 2
    /\ state.row_count = 1
    /\ out[2].row_count = BATCH_SIZE
    /\ state.group_columns = out[3].group_columns
    /\ state.group_columns # out[2].group_columns

\* ------------------------------------------------------- cursor bounds

\* C21: the cursor stays in bounds. In every state reached from a default
\* PayloadFlushState by PartitionedPayload.flush and clear calls (the output
\* taken or not in between), flush_partition is at most the number of
\* partitions; when it is a partition index, flush_page is at most that
\* partition's page count; when flush_page is a page index, flush_page_row is at
\* most that page's row count; state.row_count is at most BATCH_SIZE, and equals
\* probe_state.row_count just after a flush call that returned true.
CursorInBounds ==
    driver \in {NoDriver, Partitioned} =>
        /\ 0 <= state.flush_partition /\ state.flush_partition <= Len(payloads)
        /\ state.flush_partition < Len(payloads) =>
              LET pages == payloads[state.flush_partition + 1].pages IN
              /\ 0 <= state.flush_page /\ state.flush_page <= Len(pages)
              /\ state.flush_page < Len(pages) =>
                    /\ 0 <= state.flush_page_row
                    /\ state.flush_page_row <= pages[state.flush_page + 1].rows
        /\ 0 <= state.row_count /\ state.row_count <= BATCH_SIZE
        /\ (Flushed /\ last.ret = "true") =>
              state.row_count = state.probe_state.row_count

\* A session restarted by clear() and flushed again: the cursor stands at the
\* last row of a page whose row count is no multiple of BATCH_SIZE, in the last
\* partition, after a batch shorter than BATCH_SIZE.
CursorInBounds_Witness ==
    /\ session = "cleared"
    /\ driver = Partitioned
    /\ last.op = "PartitionedPayload.flush" /\ last.ret = "true"
    /\ state.flush_partition = Len(payloads) - 1
    /\ state.flush_partition > 0
    /\ state.row_count < BATCH_SIZE
    /\ state.flush_page_row =
          payloads[state.flush_partition + 1].pages[state.flush_page + 1].rows
    /\ state.flush_page_row % BATCH_SIZE # 0

\* ------------------------------------------------------- taking the output

\* The flush call the session's driver makes next.
FlushBy(st) ==
    IF driver.entry = "Payload"
    THEN Payload_flush(payloads, driver.recv, st)
    ELSE PartitionedPayload_flush(payloads, st)

\* What the flush calls from st on return, up to the first call that does not
\* return true: the caller never taking the output, or taking both vectors
\* before every call.
RECURSIVE RunKeeping(_)
RunKeeping(st) ==
    LET r == FlushBy(st) IN
    IF r.ret = "true"
    THEN << [ret |-> r.ret, batch |-> Batch(r.state)] >> \o RunKeeping(r.state)
    ELSE << [ret |-> r.ret, batch |-> << >>] >>

RECURSIVE RunTaking(_)
RunTaking(st) ==
    LET r == FlushBy(take_aggregate_results(take_group_columns(st).state).state) IN
    IF r.ret = "true"
    THEN << [ret |-> r.ret, batch |-> Batch(r.state)] >> \o RunTaking(r.state)
    ELSE << [ret |-> r.ret, batch |-> << >>] >>

TakeBlind == ~Panicked => RunKeeping(state) = RunTaking(state)

TakeStep ==
    /\ last'.op = "take_group_columns" =>
          /\ take_group_columns(state).ret = state.group_columns
          /\ state' = [state EXCEPT !.group_columns = << >>]
    /\ last'.op = "take_aggregate_results" =>
          /\ take_aggregate_results(state).ret = state.aggregate_results
          /\ state' = [state EXCEPT !.aggregate_results = << >>]
    /\ last'.op \in FlushOps => state'.aggregate_results = state.aggregate_results

\* C22: taking the output does not disturb iteration. take_group_columns (and
\* take_aggregate_results) returns the vector's contents and leaves it empty,
\* the cursor, row_count and the scratch buffers staying as they were; the
\* return values and batches of the flush calls that follow are the same
\* whether or not the caller takes the output between calls; and no flush call
\* changes aggregate_results.
TakeKeepsIteration ==
    /\ []TakeBlind
    /\ [][TakeStep]_vars

\* Just after take_group_columns in the middle of a session: the batch's
\* columns are gone, its scratch and the cursor are still there, the finalized
\* aggregates are still in the state, and rows are left to flush.
TakeKeepsIteration_Witness ==
    /\ last.op = "take_group_columns"
    /\ driver = Partitioned
    /\ state.group_columns = << >>
    /\ state.aggregate_results # << >>
    /\ state.row_count = BATCH_SIZE
    /\ state.addresses[0] # NullPtr
    /\ state.flush_page_row = BATCH_SIZE
    /\ Unread(-1, Cursor(state)) # {}
    /\ Len(RunKeeping(state)) >= 2

====
